---- MODULE Spec2Model ----
(***************************************************************************)
(* Rent-check core of treewx/template_store: the bank-transaction gateway  *)
(* (backend/utils/akahu_service.py), the transaction store                 *)
(* (backend/models/transaction.py over backend/database_sqlite.py) and the *)
(* daily scheduler (backend/utils/smart_scheduler.py), with the mock bank   *)
(* backend, two concurrent writers of the store, the expected-rent-date    *)
(* function of backend/utils/rent_checker.py, and the two rent payment     *)
(* detectors.                                                              *)
(*                                                                         *)
(* Conventions.  Money is held in integer cents; where the code computes   *)
(* on amounts as Python floats, the cents are converted to the binary64    *)
(* value of the decimal amount and the arithmetic is carried out in        *)
(* binary64.  A calendar date is its                                       *)
(* proleptic Gregorian ordinal (Python date.toordinal()).  Free text       *)
(* (descriptions, keywords, nicknames) is a sequence of one-character      *)
(* strings so that lower() and substring search are computed.  Python      *)
(* None / SQL NULL is the value Null.  A Python dict is a TLA+ record      *)
(* whose DOMAIN is exactly the keys that were set.                         *)
(***************************************************************************)
EXTENDS Integers, Sequences, FiniteSets, TLC

VARIABLES
    users,                \* users table: id -> [bank_connected, akahu_access_token]
    transactions,         \* transactions table, rows in insertion (rowid) order
    schema_unique,        \* TRUE: table made by init_db (akahu_transaction_id UNIQUE);
                          \* FALSE: column added by migrate_akahu_fields (no constraint)
    use_mock_akahu,       \* SmartRentScheduler(use_mock_akahu): which backend is wired in
    today,                \* datetime.now().date()
    pc,                   \* position of the caller: "idle", "loop", "returned", "fetched"
    properties_to_check,  \* run_daily_smart_check: due properties not yet processed
    results,              \* run_daily_smart_check: the results dict (the summary once returned)
    due_count,            \* observer: len(properties_to_check) as collected at the start of the run
    calls_issued,         \* observer: provider requests issued since the run started
    last_check,           \* observer: the latest fetch_transactions_for_property call of the run
                          \* (before the first one: whether the collection could read the database)
    last_fetch,           \* observer: the latest fetch_rent_due_transactions call since "idle"
    last_mock,            \* observer: the latest MockAkahuService.get_transactions call since "idle"
    workers,              \* concurrent callers of create_transaction: worker -> its position
    schedule,             \* the list schedule_rent_checks returned to show_schedule
    last_expected,        \* observer: the latest calculate_expected_rent_date call since "idle"
    last_detect,          \* observer: the latest rent payment detection since "idle"
    noticed,              \* observer: ids of the properties an overdue notification was emitted for today
    amount_matches        \* the (amount, rent) pairs in cents on which amount_match holds, fixed by Init

vars == <<users, transactions, schema_unique, use_mock_akahu, today, pc,
          properties_to_check, results, due_count, calls_issued, last_check, last_fetch, last_mock,
          workers, schedule, last_expected, last_detect, noticed, amount_matches>>

Null == "NULL"

(***************************************************************************)
(* Python values                                                           *)
(***************************************************************************)

\* dict.get(key, default)
Get(d, k, default) == IF k \in DOMAIN d THEN d[k] ELSE default

\* truth value of an optional string (token, external id): None and '' are falsy
Truthy(s) == s # Null /\ s # ""

\* truth value of a text (keyword, nickname): None and '' are both the empty text
TruthyText(s) == Len(s) > 0

UpperLetters ==
    << "A", "B", "C", "D", "E", "F", "G", "H", "I", "J", "K", "L", "M",
       "N", "O", "P", "Q", "R", "S", "T", "U", "V", "W", "X", "Y", "Z" >>

LowerLetters ==
    << "a", "b", "c", "d", "e", "f", "g", "h", "i", "j", "k", "l", "m",
       "n", "o", "p", "q", "r", "s", "t", "u", "v", "w", "x", "y", "z" >>

\* str.lower() on one character
LowerChar(c) ==
    IF \E i \in 1..26 : UpperLetters[i] = c
    THEN LowerLetters[CHOOSE i \in 1..26 : UpperLetters[i] = c]
    ELSE c

Lower(s) == [i \in 1..Len(s) |-> LowerChar(s[i])]

\* Python `needle in haystack` on strings
Contains(haystack, needle) ==
    \E i \in 0..(Len(haystack) - Len(needle)) :
        \A j \in 1..Len(needle) : haystack[i + j] = needle[j]

Abs(x) == IF x < 0 THEN -x ELSE x

(***************************************************************************)
(* Python float arithmetic (IEEE 754 binary64, round half to even).  A      *)
(* natural number of any size is a little-endian sequence of 15-bit limbs   *)
(* without a leading zero limb; a non-negative float is [m, e], the value   *)
(* m * 2^e with m of at most 53 bits.                                       *)
(***************************************************************************)
Limb == 2^15

RECURSIVE BNNorm(_)
BNNorm(a) == IF Len(a) > 0 /\ a[Len(a)] = 0 THEN BNNorm(SubSeq(a, 1, Len(a) - 1)) ELSE a

RECURSIVE BNFromInt(_)
BNFromInt(n) == IF n = 0 THEN <<>> ELSE <<n % Limb>> \o BNFromInt(n \div Limb)

BNLimb(a, i) == IF i <= Len(a) THEN a[i] ELSE 0

RECURSIVE BNAddFrom(_, _, _, _)
BNAddFrom(a, b, i, carry) ==
    IF i > Len(a) /\ i > Len(b) THEN BNFromInt(carry)
    ELSE LET t == BNLimb(a, i) + BNLimb(b, i) + carry
         IN <<t % Limb>> \o BNAddFrom(a, b, i + 1, t \div Limb)

BNAdd(a, b) == BNAddFrom(a, b, 1, 0)

RECURSIVE BNSubFrom(_, _, _, _)
BNSubFrom(a, b, i, borrow) ==
    IF i > Len(a) THEN <<>>
    ELSE LET t == a[i] - BNLimb(b, i) - borrow
         IN <<t % Limb>> \o BNSubFrom(a, b, i + 1, IF t < 0 THEN 1 ELSE 0)

\* a - b for a >= b
BNSub(a, b) == BNNorm(BNSubFrom(a, b, 1, 0))

RECURSIVE BNCmpFrom(_, _, _)
BNCmpFrom(a, b, i) ==
    IF i = 0 THEN 0
    ELSE IF a[i] < b[i] THEN -1
    ELSE IF a[i] > b[i] THEN 1
    ELSE BNCmpFrom(a, b, i - 1)

\* -1, 0 or 1 as a < b, a = b or a > b
BNCmp(a, b) ==
    IF Len(a) < Len(b) THEN -1
    ELSE IF Len(a) > Len(b) THEN 1
    ELSE BNCmpFrom(a, b, Len(a))

RECURSIVE BNMulSmallFrom(_, _, _, _)
BNMulSmallFrom(a, k, i, carry) ==
    IF i > Len(a) THEN BNFromInt(carry)
    ELSE LET t == a[i] * k + carry
         IN <<t % Limb>> \o BNMulSmallFrom(a, k, i + 1, t \div Limb)

\* a * k for 0 <= k <= Limb
BNMulSmall(a, k) == BNNorm(BNMulSmallFrom(a, k, 1, 0))

RECURSIVE BNDivSmallFrom(_, _, _, _)
BNDivSmallFrom(a, k, i, rem) ==
    IF i = 0 THEN [q |-> <<>>, r |-> rem]
    ELSE LET t == rem * Limb + a[i]
             rest == BNDivSmallFrom(a, k, i - 1, t % k)
         IN [q |-> rest.q \o <<t \div k>>, r |-> rest.r]

\* quotient and remainder of a by k, 0 < k <= Limb
BNDivSmall(a, k) ==
    LET d == BNDivSmallFrom(a, k, Len(a), 0) IN [q |-> BNNorm(d.q), r |-> d.r]

RECURSIVE BNMulFrom(_, _, _)
BNMulFrom(a, b, i) ==
    IF i > Len(b) THEN <<>>
    ELSE BNAdd(BNMulSmall(a, b[i]), <<0>> \o BNMulFrom(a, b, i + 1))

BNMul(a, b) == BNNorm(BNMulFrom(a, b, 1))

\* a * 2^k
BNShl(a, k) ==
    IF a = <<>> THEN <<>>
    ELSE [i \in 1..(k \div 15) |-> 0] \o BNMulSmall(a, 2^(k % 15))

\* a \div 2^k
BNShr(a, k) ==
    IF k \div 15 >= Len(a) THEN <<>>
    ELSE BNDivSmall(SubSeq(a, (k \div 15) + 1, Len(a)), 2^(k % 15)).q

RECURSIVE IntBitLen(_)
IntBitLen(n) == IF n = 0 THEN 0 ELSE 1 + IntBitLen(n \div 2)

BNBitLen(a) == IF a = <<>> THEN 0 ELSE 15 * (Len(a) - 1) + IntBitLen(a[Len(a)])

\* the float nearest to m * 2^e, ties to the even mantissa
float_round(m, e) ==
    LET k == BNBitLen(m) - 53
    IN IF k <= 0 THEN [m |-> m, e |-> e]
       ELSE LET q == BNShr(m, k)
                c == BNCmp(BNSub(m, BNShl(q, k)), BNShl(<<1>>, k - 1))
                up == c > 0 \/ (c = 0 /\ q[1] % 2 = 1)
            IN [m |-> IF up THEN BNAdd(q, <<1>>) ELSE q, e |-> e + k]

\* the float a decimal literal or number n/d denotes, 0 <= n, 0 < d <= Limb: the
\* quotient to 76 binary places, its last place set when the division left a remainder
float_of(n, d) ==
    LET qr == BNDivSmall(BNShl(BNFromInt(n), 75), d)
    IN float_round(BNAdd(BNMulSmall(qr.q, 2), BNFromInt(IF qr.r = 0 THEN 0 ELSE 1)), -76)

\* the mantissa of x at exponent e <= x.e
float_mantissa_at(x, e) == BNShl(x.m, x.e - e)

float_min_e(x, y) == IF x.e < y.e THEN x.e ELSE y.e

\* x * y
float_mul(x, y) == float_round(BNMul(x.m, y.m), x.e + y.e)

\* x + y
float_add(x, y) ==
    LET e == float_min_e(x, y)
    IN float_round(BNAdd(float_mantissa_at(x, e), float_mantissa_at(y, e)), e)

\* -1, 0 or 1 as x < y, x == y or x > y
float_cmp(x, y) ==
    LET e == float_min_e(x, y)
    IN BNCmp(float_mantissa_at(x, e), float_mantissa_at(y, e))

\* abs(x - y)
float_abs_diff(x, y) ==
    LET e == float_min_e(x, y)
        mx == float_mantissa_at(x, e)
        my == float_mantissa_at(y, e)
    IN float_round(IF BNCmp(mx, my) >= 0 THEN BNSub(mx, my) ELSE BNSub(my, mx), e)

(***************************************************************************)
(* datetime.date, as the standard library computes it                      *)
(***************************************************************************)

IsLeap(y) == y % 4 = 0 /\ (y % 100 # 0 \/ y % 400 = 0)

DaysInMonth(y, m) ==
    CASE m \in {4, 6, 9, 11} -> 30
      [] m = 2 -> (IF IsLeap(y) THEN 29 ELSE 28)
      [] OTHER -> 31

DaysBeforeYear(y) ==
    LET p == y - 1 IN p * 365 + (p \div 4) - (p \div 100) + (p \div 400)

RECURSIVE DaysBeforeMonth(_, _)
DaysBeforeMonth(y, m) ==
    IF m = 1 THEN 0 ELSE DaysBeforeMonth(y, m - 1) + DaysInMonth(y, m - 1)

\* date(y, m, d).toordinal()
Ymd2Ord(y, m, d) == DaysBeforeYear(y) + DaysBeforeMonth(y, m) + d

\* date.fromordinal(n).year
YearOf(n) ==
    LET guess == (n \div 366) + 1
        RECURSIVE Up(_)
        Up(y) == IF DaysBeforeYear(y + 1) < n THEN Up(y + 1) ELSE y
    IN Up(guess)

\* date.fromordinal(n).month
MonthOf(n) ==
    LET y == YearOf(n)
        r == n - DaysBeforeYear(y)
        RECURSIVE Up(_)
        Up(m) == IF DaysBeforeMonth(y, m) + DaysInMonth(y, m) < r THEN Up(m + 1) ELSE m
    IN Up(1)

\* date.fromordinal(n).day
DayOf(n) == n - DaysBeforeYear(YearOf(n)) - DaysBeforeMonth(YearOf(n), MonthOf(n))

\* date.weekday(): 0 = Monday .. 6 = Sunday
Weekday(n) == (n + 6) % 7

WeekdayNames == <<"monday", "tuesday", "wednesday", "thursday", "friday", "saturday", "sunday">>

\* date.strftime('%A').lower()
WeekdayName(n) == WeekdayNames[Weekday(n) + 1]

\* datetime._isoweek1monday(year)
IsoWeek1Monday(y) ==
    LET firstday == Ymd2Ord(y, 1, 1)
        firstweekday == (firstday + 6) % 7
        week1monday == firstday - firstweekday
    IN IF firstweekday > 3 THEN week1monday + 7 ELSE week1monday

\* date.isocalendar()[1]
IsoWeek(n) ==
    LET y == YearOf(n)
        week == (n - IsoWeek1Monday(y)) \div 7
    IN IF n < IsoWeek1Monday(y)
         THEN ((n - IsoWeek1Monday(y - 1)) \div 7) + 1
         ELSE IF week >= 52 /\ n >= IsoWeek1Monday(y + 1) THEN 1 ELSE week + 1

(***************************************************************************)
(* Bounds and the data the inputs are drawn from                           *)
(***************************************************************************)

MaxRows == 2        \* rows the transactions table may hold
MaxItems == 2       \* raw transactions in one provider response to a gateway caller
MaxFetched == 1     \* raw transactions in one provider response to the scheduler
MaxDays == 1        \* days the clock may advance past Day0

\* Wednesday 1 October 2025: the day before is Tuesday of ISO week 40, the day itself
\* the first of a month
Day0 == Ymd2Ord(2025, 10, 1)

UserIds == {1, 2}

Tokens == {Null, "", "tok"}

kw1 == <<"k", "1">>

\* properties table (read-only to the core), in Property.get_by_user_id order; due_day
\* is one of the weekday names the table's CHECK admits, so that the monthly property
\* falls due on the first of the month
Properties ==
    << [id |-> 1, user_id |-> 1, keyword |-> kw1, rent_amount |-> 45000,
        due_day |-> "tuesday", frequency |-> "weekly", tenant_nickname |-> <<>>],
       [id |-> 2, user_id |-> 2, keyword |-> <<>>, rent_amount |-> 45000,
        due_day |-> "tuesday", frequency |-> "fortnightly", tenant_nickname |-> <<>>],
       [id |-> 3, user_id |-> 2, keyword |-> kw1, rent_amount |-> 30000,
        due_day |-> "wednesday", frequency |-> "monthly", tenant_nickname |-> <<"t">>] >>

PropertyIds == {Properties[i].id : i \in 1..Len(Properties)}

\* Raw provider transactions.  numeric = FALSE: float(txn['amount']) raises (null,
\* non-numeric text); date = 0: datetime.fromisoformat raises; _id = "": the item
\* carries no '_id' key (txn.get('_id', '') yields '').
RawTxns ==
    { [_id |-> "a", amount |-> 45000,  numeric |-> TRUE,  description |-> <<"K", "1">>, date |-> Day0 - 1],
      [_id |-> "b", amount |-> -45000, numeric |-> TRUE,  description |-> <<"K", "1">>, date |-> Day0 - 1],
      [_id |-> "",  amount |-> 45000,  numeric |-> TRUE,  description |-> <<"x">>,      date |-> Day0 - 1],
      [_id |-> "z", amount |-> 0,      numeric |-> TRUE,  description |-> <<"x">>,      date |-> Day0],
      [_id |-> "c", amount |-> 0,      numeric |-> FALSE, description |-> <<"x">>,      date |-> Day0],
      [_id |-> "d", amount |-> 30000,  numeric |-> TRUE,  description |-> <<"T">>,      date |-> 0] }

\* the tolerance of both detectors, in percent of the rent
TolerancePercent == 5

\* inputs of the rent payment detectors
kwUpper == <<"K", "1">>

nick == <<"J", "o">>

MatchRents == {45000, 10300}

\* property objects handed to the detectors
MatchProperties ==
    {[rent_amount |-> r, keyword |-> k, tenant_nickname |-> n] :
         r \in MatchRents, k \in {<<>>, kwUpper}, n \in {<<>>, nick}}

\* amounts in cents around a rent: the two 5% boundaries, one cent outside each, the
\* rent itself, the rent and the lower boundary as debits, and nothing
MatchAmounts(rent) ==
    LET b == (TolerancePercent * rent) \div 100
    IN {rent - b - 1, rent - b, rent, rent + b, rent + b + 1, -rent, -(rent - b), 0}

MatchDescriptions ==
    { <<>>, <<"x">>, <<"k", "1">>, <<"j", "o">>, <<"R", "e", "n", "t">>,
      <<"l", "e", "a", "s", "e">>,
      <<"K", "1", " ", "J", "O">>,
      <<"k", "1", " ", "r", "e", "n", "t">>,
      <<"j", "o", " ", "h", "o", "u", "s", "i", "n", "g">>,
      <<"K", "1", " ", "J", "o", " ", "r", "e", "n", "t", "a", "l">> }

MatchTxns(rent) ==
    {[amount |-> a, numeric |-> TRUE, description |-> d] :
         a \in MatchAmounts(rent), d \in MatchDescriptions}

\* the amounts and rents, in cents, that meet in a detector
AmountRentPairs ==
    {<<t.amount, Properties[i].rent_amount>> : t \in RawTxns, i \in 1..Len(Properties)}
    \cup UNION {{<<a, r>> : a \in MatchAmounts(r)} : r \in MatchRents}

RECURSIVE SeqsUpTo(_, _)
SeqsUpTo(S, n) ==
    IF n = 0 THEN {<<>>}
    ELSE LET shorter == SeqsUpTo(S, n - 1)
         IN shorter \cup {Append(q, x) : q \in {r \in shorter : Len(r) = n - 1}, x \in S}

\* what the provider may answer: a failure (non-2xx or network error) or a list of
\* at most n items
AnswersUpTo(n) ==
    {[ok |-> FALSE, items |-> <<>>]} \cup {[ok |-> TRUE, items |-> r] : r \in SeqsUpTo(RawTxns, n)}

ProviderAnswers == AnswersUpTo(MaxItems)

SchedulerAnswers == AnswersUpTo(MaxFetched)

(***************************************************************************)
(* models/transaction.py and database_sqlite.py                            *)
(***************************************************************************)

\* SELECT id FROM transactions WHERE akahu_transaction_id = ?
ExistsExternalId(rows, akahu_transaction_id) ==
    \E i \in 1..Len(rows) : rows[i].akahu_transaction_id = akahu_transaction_id

\* The INSERT is refused (sqlite3.IntegrityError) by the UNIQUE constraint of init_db:
\* NULLs never collide, equal non-NULL values (the empty string included) do.
UniqueViolation(rows, unique, akahu_transaction_id) ==
    unique /\ akahu_transaction_id # Null /\ ExistsExternalId(rows, akahu_transaction_id)

\* create_transaction without its SELECT for an existing akahu_transaction_id
create_transaction_no_select(rows, unique, db_up, property_id, date, amount, description, matched, akahu_transaction_id, raw_data) ==
    IF ~db_up \/ UniqueViolation(rows, unique, akahu_transaction_id)
    THEN [rows |-> rows, created |-> FALSE]
    ELSE [rows |-> Append(rows, [id |-> Len(rows) + 1, property_id |-> property_id,
                                 date |-> date, amount |-> amount,
                                 description |-> description, matched |-> matched,
                                 akahu_transaction_id |-> akahu_transaction_id,
                                 confidence_score |-> Null, raw_data |-> raw_data]),
          created |-> TRUE]

\* Transaction.create_transaction: [rows: the table afterwards, created: a Transaction
\* was returned (FALSE: None was returned)].  raw_data is <<>> for None and <<txn>> for
\* str(txn).  db_up = FALSE: no connection, or the
\* statement failed and was rolled back.
create_transaction(rows, unique, db_up, property_id, date, amount, description, matched, akahu_transaction_id, raw_data) ==
    IF ~db_up THEN [rows |-> rows, created |-> FALSE]
    ELSE IF Truthy(akahu_transaction_id) /\ ExistsExternalId(rows, akahu_transaction_id)
    THEN [rows |-> rows, created |-> FALSE]
    ELSE IF UniqueViolation(rows, unique, akahu_transaction_id)
    THEN [rows |-> rows, created |-> FALSE]
    ELSE [rows |-> Append(rows, [id |-> Len(rows) + 1, property_id |-> property_id,
                                 date |-> date, amount |-> amount,
                                 description |-> description, matched |-> matched,
                                 akahu_transaction_id |-> akahu_transaction_id,
                                 confidence_score |-> Null, raw_data |-> raw_data]),
          created |-> TRUE]

(***************************************************************************)
(* utils/akahu_service.py                                                  *)
(***************************************************************************)

\* StoreOne without the test that the amount is a credit
StoreOne_any_sign(acc, unique, db_up, txn, property_id) ==
    IF txn.date = 0 \/ ~txn.numeric THEN acc
    ELSE LET made == create_transaction(acc.rows, unique, db_up, property_id, txn.date,
                                        Abs(txn.amount), txn.description, FALSE, txn._id,
                                        <<txn>>)
         IN [rows |-> made.rows,
             stored_count |-> acc.stored_count + (IF made.created THEN 1 ELSE 0)]

\* One pass of the for loop of store_transactions over txn, from the table `rows`
\* and the running stored_count: an exception (bad date, bad amount) skips the item.
StoreOne(acc, unique, db_up, txn, property_id) ==
    IF txn.date = 0 \/ ~txn.numeric THEN acc
    ELSE IF txn.amount > 0
    THEN LET made == create_transaction(acc.rows, unique, db_up, property_id, txn.date,
                                        Abs(txn.amount), txn.description, FALSE, txn._id,
                                        <<txn>>)
         IN [rows |-> made.rows,
             stored_count |-> acc.stored_count + (IF made.created THEN 1 ELSE 0)]
    ELSE acc

RECURSIVE StoreLoop(_, _, _, _, _, _)
StoreLoop(acc, unique, db_up, raw, i, property_id) ==
    IF i > Len(raw) THEN acc
    ELSE StoreLoop(StoreOne(acc, unique, db_up, raw[i], property_id),
                   unique, db_up, raw, i + 1, property_id)

\* AkahuService.store_transactions: [rows, stored_count]
store_transactions(rows, unique, db_up, raw, property_id) ==
    StoreLoop([rows |-> rows, stored_count |-> 0], unique, db_up, raw, 1, property_id)

\* parameters MockAkahuService.get_transactions accepts after self
MockParams == {"access_token", "account_id", "days_back"}

\* get_transactions called with the access token and the keyword arguments `keywords`:
\* [raised: the call raised to its caller, issued: a request went to the provider,
\*  items: the list returned].  The real backend catches every provider failure and
\* returns []; the mock backend's signature takes no start_date/end_date and needs
\* account_id, so such a call raises TypeError before its body runs.
get_transactions(mock, keywords, answer) ==
    IF mock
    THEN IF keywords \subseteq MockParams /\ "account_id" \in keywords
         THEN [raised |-> FALSE, issued |-> FALSE, items |-> <<>>]
         ELSE [raised |-> TRUE, issued |-> FALSE, items |-> <<>>]
    ELSE [raised |-> FALSE, issued |-> TRUE,
          items |-> IF answer.ok THEN answer.items ELSE <<>>]

CostPerCallCents == 10

\* AkahuService.fetch_rent_due_transactions: [rows, result, calls, requests], calls
\* being the get_transactions calls made, each with its [start, end) window, and
\* requests the number of them that went to the provider
fetch_rent_due_transactions(rows, unique, db_up, mock, answer, property_id, rent_due_date) ==
    LET start_date == rent_due_date - 1
        end_date == rent_due_date + 2
        got == get_transactions(mock, {"start_date", "end_date"}, answer)
        stored == store_transactions(rows, unique, db_up, got.items, property_id)
    IN IF got.raised
       THEN [rows |-> rows,
             result |-> [success |-> FALSE, error |-> "TypeError",
                         api_calls_used |-> 0, estimated_cost |-> 0],
             calls |-> <<[start |-> start_date, end |-> end_date]>>,
             requests |-> IF got.issued THEN 1 ELSE 0]
       ELSE [rows |-> stored.rows,
             result |-> [success |-> TRUE, property_id |-> property_id,
                         date_range |-> <<start_date, end_date>>,
                         transactions_found |-> Len(got.items),
                         transactions_stored |-> stored.stored_count,
                         api_calls_used |-> 1, estimated_cost |-> CostPerCallCents],
             calls |-> <<[start |-> start_date, end |-> end_date]>>,
             requests |-> IF got.issued THEN 1 ELSE 0]

(***************************************************************************)
(* models/user.py                                                          *)
(***************************************************************************)

\* sequence of the elements of a set of integers, ascending
RECURSIVE Ascending(_)
Ascending(S) ==
    IF S = {} THEN <<>>
    ELSE LET m == CHOOSE x \in S : \A y \in S : x <= y
         IN <<m>> \o Ascending(S \ {m})

\* User.get_all_with_bank_connected: ids of the rows with
\* bank_connected = TRUE AND akahu_access_token IS NOT NULL ([] when the query fails)
get_all_with_bank_connected(us, db_up) ==
    IF ~db_up THEN <<>>
    ELSE Ascending({u \in DOMAIN us :
                        us[u].bank_connected /\ us[u].akahu_access_token # Null})

(***************************************************************************)
(* utils/notification_service.py                                           *)
(***************************************************************************)

\* NotificationService.send_rent_overdue_email(user, property_data), property_data
\* given by its keys: TRUE when the mail went out.  The subject line reads
\* property_data['property_name'] first; a KeyError there, or a failure of mail.send,
\* is caught and False returned.
send_rent_overdue_email(property_data_keys, mail_ok) ==
    IF "property_name" \notin property_data_keys THEN FALSE
    ELSE IF "property_id" \notin property_data_keys THEN FALSE
    ELSE mail_ok

(***************************************************************************)
(* utils/smart_scheduler.py                                                *)
(***************************************************************************)

\* str.isdigit() and int() on a due_day held as text
IsDigitText(s) == \E k \in 0..31 : ToString(k) = s

IntOfText(s) == CHOOSE k \in 0..31 : ToString(k) = s

\* _should_check_property_today with the weekly branch also asking for an even ISO week
should_check_property_today_even_weeks(property_obj, yesterday, yesterday_weekday) ==
    CASE property_obj.frequency \in {"weekly", "fortnightly"} ->
            property_obj.due_day = yesterday_weekday /\ IsoWeek(yesterday) % 2 = 0
      [] OTHER -> DayOf(yesterday) = 1

\* SmartRentScheduler._should_check_property_today
should_check_property_today(property_obj, yesterday, yesterday_weekday) ==
    CASE property_obj.frequency = "weekly" ->
            property_obj.due_day = yesterday_weekday
      [] property_obj.frequency = "fortnightly" ->
            property_obj.due_day = yesterday_weekday /\ IsoWeek(yesterday) % 2 = 0
      [] property_obj.frequency = "monthly" ->
            LET due_day_of_month ==
                    IF IsDigitText(property_obj.due_day)
                    THEN IntOfText(property_obj.due_day) ELSE 1
            IN DayOf(yesterday) = due_day_of_month
      [] OTHER -> FALSE

\* get_properties_due_for_check_today testing the predicate on today instead of yesterday
DueOf_same_day(us, user_ids, i, day) ==
    LET mine == SelectSeq(Properties,
                    LAMBDA p : \E k \in 1..Len(user_ids) : user_ids[k] = p.user_id
                               /\ should_check_property_today(p, day, WeekdayName(day)))
    IN IF i > 1 THEN <<>>
       ELSE [k \in 1..Len(mine) |->
                [property |-> mine[k],
                 user |-> [id |-> mine[k].user_id,
                           akahu_access_token |-> us[mine[k].user_id].akahu_access_token]]]

\* the for loops of get_properties_due_for_check_today: the properties of the given
\* users, each with its user attached, filtered by the check-day predicate
RECURSIVE DueOf(_, _, _, _)
DueOf(us, user_ids, i, day) ==
    IF i > Len(user_ids) THEN <<>>
    ELSE LET uid == user_ids[i]
             mine == SelectSeq(Properties,
                        LAMBDA p : p.user_id = uid
                                   /\ should_check_property_today(p, day - 1, WeekdayName(day - 1)))
             withUser == [k \in 1..Len(mine) |->
                            [property |-> mine[k],
                             user |-> [id |-> uid,
                                       akahu_access_token |-> us[uid].akahu_access_token]]]
         IN withUser \o DueOf(us, user_ids, i + 1, day)

\* SmartRentScheduler.get_properties_due_for_check_today
get_properties_due_for_check_today(us, day, db_up) ==
    DueOf(us, get_all_with_bank_connected(us, db_up), 1, day)

\* amount_match of both detectors, amounts in cents: rent_amount = float(rent),
\* tolerance = rent_amount * 0.05, amount = abs(float(txn amount)),
\* abs(amount - rent_amount) <= tolerance
amount_match(amount_cents, rent_cents) ==
    LET rent_amount == float_of(rent_cents, 100)
        tolerance == float_mul(rent_amount, float_of(TolerancePercent, 100))
        amount == float_of(Abs(amount_cents), 100)
    IN float_cmp(float_abs_diff(amount, rent_amount), tolerance) <= 0

\* amount_match for every amount and rent of the model
AmountMatchTable == {p \in AmountRentPairs : amount_match(p[1], p[2])}

\* amount_match as Init evaluated it
AmountMatches(amount_cents, rent_cents) == <<amount_cents, rent_cents>> \in amount_matches

\* _detect_rent_payments without the tenant nickname alternative
IsRentPayment_keyword_only(txn, property_obj) ==
    /\ AmountMatches(txn.amount, property_obj.rent_amount)
    /\ TruthyText(property_obj.keyword)
          => Contains(Lower(txn.description), Lower(property_obj.keyword))

\* the body of the for loop of _detect_rent_payments: is txn a rent payment
IsRentPayment(txn, property_obj) ==
    LET description == Lower(txn.description)
        keyword_match0 == IF TruthyText(property_obj.keyword)
                          THEN Contains(description, Lower(property_obj.keyword))
                          ELSE TRUE
        keyword_match == IF TruthyText(property_obj.tenant_nickname)
                         THEN keyword_match0
                              \/ Contains(description, Lower(property_obj.tenant_nickname))
                         ELSE keyword_match0
    IN AmountMatches(txn.amount, property_obj.rent_amount) /\ keyword_match

\* _detect_rent_payments finding no rent payment in anything it is given
detect_rent_payments_none(raw, property_obj) ==
    [raised |-> \E i \in 1..Len(raw) : ~raw[i].numeric, rent_payments |-> <<>>]

\* SmartRentScheduler._detect_rent_payments: [raised, rent_payments]; float() of a
\* non-numeric amount raises out of the function
detect_rent_payments_sched(raw, property_obj) ==
    IF \E i \in 1..Len(raw) : ~raw[i].numeric
    THEN [raised |-> TRUE, rent_payments |-> <<>>]
    ELSE [raised |-> FALSE,
          rent_payments |-> SelectSeq(raw, LAMBDA t : IsRentPayment(t, property_obj))]

rent_keywords ==
    << <<"r", "e", "n", "t">>, <<"r", "e", "n", "t", "a", "l">>,
       <<"l", "e", "a", "s", "e">>, <<"h", "o", "u", "s", "i", "n", "g">> >>

\* the confidence_score AkahuService.detect_rent_payments computes for a transaction
\* whose amount matched, description already lowered: a float
confidence_score(description, property_obj) ==
    LET base == float_of(5, 10)
        with_keyword ==
            IF TruthyText(property_obj.keyword)
               /\ Contains(description, Lower(property_obj.keyword))
            THEN float_add(base, float_of(3, 10)) ELSE base
        with_nickname ==
            IF TruthyText(property_obj.tenant_nickname)
               /\ Contains(description, Lower(property_obj.tenant_nickname))
            THEN float_add(with_keyword, float_of(2, 10)) ELSE with_keyword
    IN IF \E i \in 1..Len(rent_keywords) : Contains(description, rent_keywords[i])
       THEN float_add(with_nickname, float_of(1, 10)) ELSE with_nickname

\* detect_rent_payments appending only above the confidence threshold
IsDetectedPayment_strict(txn, property_obj) ==
    /\ AmountMatches(txn.amount, property_obj.rent_amount)
    /\ float_cmp(confidence_score(Lower(txn.description), property_obj), float_of(6, 10)) > 0

\* the body of the for loop of AkahuService.detect_rent_payments: is txn appended
IsDetectedPayment(txn, property_obj) ==
    /\ AmountMatches(txn.amount, property_obj.rent_amount)
    /\ float_cmp(confidence_score(Lower(txn.description), property_obj), float_of(6, 10)) >= 0

\* the for loop of detect_rent_payments from the i-th transaction on
RECURSIVE DetectLoop(_, _, _)
DetectLoop(raw, i, property_obj) ==
    IF i > Len(raw) THEN <<>>
    ELSE (IF IsDetectedPayment(raw[i], property_obj)
          THEN <<[transaction |-> raw[i],
                  confidence |-> confidence_score(Lower(raw[i].description), property_obj),
                  amount_match |-> TRUE,
                  keyword_match |->
                      float_cmp(confidence_score(Lower(raw[i].description), property_obj),
                                float_of(5, 10)) > 0]>>
          ELSE <<>>)
         \o DetectLoop(raw, i + 1, property_obj)

\* AkahuService.detect_rent_payments: [raised, detected_payments]; float() of a
\* non-numeric amount raises out of the function
detect_rent_payments(raw, property_obj) ==
    IF \E i \in 1..Len(raw) : ~raw[i].numeric
    THEN [raised |-> TRUE, detected_payments |-> <<>>]
    ELSE [raised |-> FALSE, detected_payments |-> DetectLoop(raw, 1, property_obj)]

\* _send_late_rent_notification without its try/except: a sink that fails raises
send_late_rent_notification_uncaught(mail_ok) ==
    LET delivered == send_rent_overdue_email({"property", "days_overdue", "amount"}, mail_ok)
    IN [raised |-> ~delivered, delivered |-> delivered]

\* SmartRentScheduler._send_late_rent_notification: [raised, delivered]; whatever the
\* sink does is caught and logged
send_late_rent_notification(mail_ok) ==
    [raised |-> FALSE,
     delivered |-> send_rent_overdue_email({"property", "days_overdue", "amount"}, mail_ok)]

\* SmartRentScheduler.fetch_transactions_for_property on a collected property (with its
\* user): [rows, result, calls, requests, fetched, notified, delivered]; calls are the
\* get_transactions calls made, each with its window, requests the number of them that
\* went to the provider, fetched what get_transactions returned (<<>> when it did not
\* return), notified whether the notification sink was invoked, delivered whether the
\* sink sent the mail.
fetch_transactions_for_property(rows, unique, db_up, mock, answer, mail_ok, due, day) ==
    LET property_obj == due.property
        user == due.user
        start_date == day - 2
        end_date == day + 1
        got == get_transactions(mock, {"start_date", "end_date"}, answer)
        calls == <<[start |-> start_date, end |-> end_date]>>
        requests == IF got.issued THEN 1 ELSE 0
        stored == store_transactions(rows, unique, db_up, got.items, property_obj.id)
        detected == detect_rent_payments_sched(got.items, property_obj)
        miss == Len(detected.rent_payments) = 0
        sent == send_late_rent_notification(mail_ok)
    IN IF ~Truthy(user.akahu_access_token)
       THEN [rows |-> rows, result |-> [success |-> FALSE, error |-> "No Akahu token"],
             calls |-> <<>>, requests |-> 0, fetched |-> <<>>, notified |-> FALSE,
             delivered |-> FALSE]
       ELSE IF got.raised
       THEN [rows |-> rows, result |-> [success |-> FALSE, error |-> "TypeError"],
             calls |-> calls, requests |-> requests, fetched |-> <<>>,
             notified |-> FALSE, delivered |-> FALSE]
       ELSE IF detected.raised
       THEN [rows |-> stored.rows, result |-> [success |-> FALSE, error |-> "ValueError"],
             calls |-> calls, requests |-> requests, fetched |-> got.items,
             notified |-> FALSE, delivered |-> FALSE]
       ELSE IF miss /\ sent.raised
       THEN [rows |-> stored.rows, result |-> [success |-> FALSE, error |-> "Exception"],
             calls |-> calls, requests |-> requests, fetched |-> got.items,
             notified |-> TRUE, delivered |-> FALSE]
       ELSE [rows |-> stored.rows,
             result |-> [success |-> TRUE, property_id |-> property_obj.id,
                         transactions_fetched |-> Len(got.items),
                         transactions_stored |-> stored.stored_count,
                         rent_payments_detected |-> Len(detected.rent_payments),
                         api_calls_used |-> 1,
                         notification_sent |-> miss],
             calls |-> calls, requests |-> requests, fetched |-> got.items,
             notified |-> miss, delivered |-> miss /\ sent.delivered]

\* the results dict run_daily_smart_check starts its loop with
EmptyResults ==
    [properties_checked |-> 0, api_calls_used |-> 0, notifications_sent |-> 0,
     successful_checks |-> 0, failed_checks |-> 0, total_cost |-> 0, details |-> <<>>]

\* the summary run_daily_smart_check returns when no property is due
NothingDue ==
    [properties_checked |-> 0, api_calls_used |-> 0, notifications_sent |-> 0,
     total_cost |-> 0]

\* the loop body leaving a failed check out of every count
Tally_skip_failed(res, result) ==
    IF result.success
    THEN [res EXCEPT !.properties_checked = @ + 1,
                     !.details = Append(@, result),
                     !.successful_checks = @ + 1,
                     !.api_calls_used = @ + Get(result, "api_calls_used", 0),
                     !.notifications_sent =
                         @ + (IF Get(result, "notification_sent", FALSE) THEN 1 ELSE 0)]
    ELSE res

\* one pass of the loop body of run_daily_smart_check over a check's result
Tally(res, result) ==
    LET counted == [res EXCEPT !.properties_checked = @ + 1,
                               !.details = Append(@, result)]
    IN IF result.success
       THEN [counted EXCEPT !.successful_checks = @ + 1,
                            !.api_calls_used = @ + Get(result, "api_calls_used", 0),
                            !.notifications_sent =
                                @ + (IF Get(result, "notification_sent", FALSE) THEN 1 ELSE 0)]
       ELSE [counted EXCEPT !.failed_checks = @ + 1]

\* results['total_cost'] = results['api_calls_used'] * 0.10
WithCost(res) == [res EXCEPT !.total_cost = res.api_calls_used * CostPerCallCents]

\* for days_ahead in range(1, 31)
HorizonDays == 30

\* all_properties of schedule_rent_checks: the properties of the given users, user by user
RECURSIVE AllProperties(_, _)
AllProperties(user_ids, i) ==
    IF i > Len(user_ids) THEN <<>>
    ELSE SelectSeq(Properties, LAMBDA p : p.user_id = user_ids[i])
             \o AllProperties(user_ids, i + 1)

\* the inner for loop of schedule_rent_checks for one check_date
ScheduleOn(all_properties, check_date) ==
    LET rent_due_date == check_date - 1
        rent_due_weekday == WeekdayName(rent_due_date)
        hits == SelectSeq(all_properties,
                    LAMBDA p : should_check_property_today(p, rent_due_date, rent_due_weekday))
    IN [k \in 1..Len(hits) |->
           [check_date |-> check_date, property_id |-> hits[k].id,
            rent_amount |-> hits[k].rent_amount, frequency |-> hits[k].frequency]]

\* the outer for loop of schedule_rent_checks from days_ahead up to last
RECURSIVE ScheduleLoop(_, _, _, _)
ScheduleLoop(all_properties, day, days_ahead, last) ==
    IF days_ahead > last THEN <<>>
    ELSE ScheduleOn(all_properties, day + days_ahead)
             \o ScheduleLoop(all_properties, day, days_ahead + 1, last)

\* list.sort(key=check_date): stable insertion of entry e into the sorted list q
RECURSIVE InsertByDate(_, _)
InsertByDate(q, e) ==
    IF q = <<>> THEN <<e>>
    ELSE IF q[Len(q)].check_date <= e.check_date THEN Append(q, e)
    ELSE Append(InsertByDate(SubSeq(q, 1, Len(q) - 1), e), q[Len(q)])

RECURSIVE SortByDate(_, _)
SortByDate(q, n) ==
    IF n = 0 THEN <<>> ELSE InsertByDate(SortByDate(q, n - 1), q[n])

\* schedule_rent_checks starting its horizon at today instead of tomorrow
schedule_rent_checks_from_today(us, day, db_up) ==
    LET all_properties == AllProperties(get_all_with_bank_connected(us, db_up), 1)
        found == ScheduleLoop(all_properties, day, 0, HorizonDays - 1)
    IN SortByDate(found, Len(found))

\* SmartRentScheduler.schedule_rent_checks
schedule_rent_checks(us, day, db_up) ==
    LET all_properties == AllProperties(get_all_with_bank_connected(us, db_up), 1)
        found == ScheduleLoop(all_properties, day, 1, HorizonDays)
    IN SortByDate(found, Len(found))

(***************************************************************************)
(* State machine                                                           *)
(***************************************************************************)

\* no run has returned a summary yet (or it was consumed); no call observed yet
NoSummary == [none |-> TRUE]

NoCall == [none |-> TRUE]

\* threads or processes that may be inside create_transaction at the same time
Workers == {1, 2}

\* a worker that is not inside create_transaction
Resting == [pc |-> "idle"]

Init ==
    /\ users = [u \in UserIds |-> [bank_connected |-> FALSE, akahu_access_token |-> Null]]
    /\ transactions = <<>>
    /\ schema_unique \in BOOLEAN
    /\ use_mock_akahu \in BOOLEAN
    /\ today = Day0
    /\ pc = "idle"
    /\ properties_to_check = <<>>
    /\ results = NoSummary
    /\ due_count = 0
    /\ calls_issued = 0
    /\ last_check = NoCall
    /\ last_fetch = NoCall
    /\ last_mock = NoCall
    /\ workers = [w \in Workers |-> Resting]
    /\ schedule = <<>>
    /\ last_expected = NoCall
    /\ last_detect = NoCall
    /\ noticed = {}
    /\ amount_matches = AmountMatchTable

\* User.store_akahu_credentials(access_token, akahu_user_id), the UPDATE succeeding
StoreAkahuCredentials ==
    /\ pc = "idle"
    /\ \E u \in UserIds, access_token \in Tokens :
          users' = [users EXCEPT ![u] = [bank_connected |-> TRUE,
                                        akahu_access_token |-> access_token]]
    /\ UNCHANGED <<transactions, schema_unique, use_mock_akahu, today, pc,
                   properties_to_check, results, due_count, calls_issued, last_check,
                   last_fetch, last_mock, workers, schedule, last_expected, last_detect, noticed, amount_matches>>

\* midnight passes between two runs
AdvanceDay ==
    /\ pc = "idle"
    /\ today < Day0 + MaxDays
    /\ today' = today + 1
    /\ noticed' = {}
    /\ UNCHANGED <<users, transactions, schema_unique, use_mock_akahu, pc,
                   properties_to_check, results, due_count, calls_issued, last_check,
                   last_fetch, last_mock, workers, schedule, last_expected, last_detect, amount_matches>>

\* run_daily_smart_check up to its loop: collect the due properties; return at once
\* when there are none
RunStart ==
    /\ pc = "idle"
    /\ \E db_up \in BOOLEAN :
          LET due == get_properties_due_for_check_today(users, today, db_up)
          IN /\ properties_to_check' = due
             /\ due_count' = Len(due)
             /\ results' = IF Len(due) = 0 THEN NothingDue ELSE EmptyResults
             /\ pc' = IF Len(due) = 0 THEN "returned" ELSE "loop"
             /\ last_check' = [collected_with_db |-> db_up]
    /\ calls_issued' = 0
    /\ UNCHANGED <<users, transactions, schema_unique, use_mock_akahu, today, last_fetch, last_mock, workers, schedule, last_expected, last_detect, noticed, amount_matches>>

\* one iteration of the loop of run_daily_smart_check
CheckProperty ==
    /\ pc = "loop"
    /\ Len(properties_to_check) > 0
    /\ \E answer \in SchedulerAnswers, db_up \in BOOLEAN, mail_ok \in BOOLEAN :
          LET due == Head(properties_to_check)
              r == fetch_transactions_for_property(transactions, schema_unique, db_up,
                        use_mock_akahu, answer, mail_ok, due, today)
          IN /\ Len(r.rows) <= MaxRows
             /\ transactions' = r.rows
             /\ results' = Tally(results, r.result)
             /\ calls_issued' = calls_issued + r.requests
             /\ last_check' =
                    [property |-> due.property,
                     akahu_access_token |-> due.user.akahu_access_token,
                     result |-> r.result, calls |-> r.calls, fetched |-> r.fetched,
                     notified |-> r.notified, delivered |-> r.delivered]
             /\ noticed' = IF r.notified THEN noticed \cup {due.property.id} ELSE noticed
    /\ properties_to_check' = Tail(properties_to_check)
    /\ UNCHANGED <<users, schema_unique, use_mock_akahu, today, pc, due_count, last_fetch, last_mock, workers, schedule, last_expected, last_detect, amount_matches>>

\* run_daily_smart_check after its loop: the cost, and the return
RunFinish ==
    /\ pc = "loop"
    /\ Len(properties_to_check) = 0
    /\ results' = WithCost(results)
    /\ pc' = "returned"
    /\ UNCHANGED <<users, transactions, schema_unique, use_mock_akahu, today,
                   properties_to_check, due_count, calls_issued, last_check, last_fetch, last_mock, workers, schedule, last_expected, last_detect, noticed, amount_matches>>

\* run_smart_check: the caller prints the summary and drops it
PrintResults ==
    /\ pc = "returned"
    /\ pc' = "idle"
    /\ results' = NoSummary
    /\ due_count' = 0
    /\ calls_issued' = 0
    /\ last_check' = NoCall
    /\ UNCHANGED <<users, transactions, schema_unique, use_mock_akahu, today,
                   properties_to_check, last_fetch, last_mock, workers, schedule, last_expected, last_detect, noticed, amount_matches>>

\* show_schedule: schedule_rent_checks is called and its list kept for printing
ShowSchedule ==
    /\ pc = "idle"
    /\ \E db_up \in BOOLEAN :
          /\ schedule' = schedule_rent_checks(users, today, db_up)
          /\ last_check' = [collected_with_db |-> db_up]
    /\ pc' = "scheduled"
    /\ UNCHANGED <<users, transactions, schema_unique, use_mock_akahu, today,
                   properties_to_check, results, due_count, calls_issued, last_fetch,
                   last_mock, workers, last_expected, last_detect, noticed, amount_matches>>

\* show_schedule has printed the list
ScheduleShown ==
    /\ pc = "scheduled"
    /\ pc' = "idle"
    /\ schedule' = <<>>
    /\ last_check' = NoCall
    /\ UNCHANGED <<users, transactions, schema_unique, use_mock_akahu, today,
                   properties_to_check, results, due_count, calls_issued, last_fetch,
                   last_mock, workers, last_expected, last_detect, noticed, amount_matches>>

Next ==
    \/ StoreAkahuCredentials
    \/ AdvanceDay
    \/ RunStart
    \/ CheckProperty
    \/ RunFinish
    \/ PrintResults
    \/ ShowSchedule
    \/ ScheduleShown

Spec == Init /\ [][Next]_vars

(***************************************************************************)
(* The gateway on its own: callers of AkahuService and of the store        *)
(***************************************************************************)

\* properties the gateway's callers sync
SyncedPropertyIds == {1, 2}

\* AkahuService.fetch_rent_due_transactions(token, property_id, rent_due_date)
FetchRentDue ==
    /\ pc = "idle"
    /\ \E property_id \in SyncedPropertyIds, answer \in ProviderAnswers, db_up \in BOOLEAN :
          LET rent_due_date == today - 1
              r == fetch_rent_due_transactions(transactions, schema_unique, db_up,
                        use_mock_akahu, answer, property_id, rent_due_date)
          IN /\ Len(r.rows) <= MaxRows
             /\ transactions' = r.rows
             /\ last_fetch' =
                    [property_id |-> property_id, rent_due_date |-> rent_due_date,
                     answer |-> answer, db_up |-> db_up, result |-> r.result,
                     calls |-> r.calls, requests |-> r.requests, runs |-> 1]
    /\ pc' = "fetched"
    /\ UNCHANGED <<users, schema_unique, use_mock_akahu, today, properties_to_check,
                   results, due_count, calls_issued, last_check, last_mock, workers, schedule, last_expected, last_detect, noticed, amount_matches>>

\* fetch_rent_due_transactions run again for the same property and due date, the
\* provider answering as before (a re-entrant run); the database may have come up
\* or gone down in between (the observer's db_up: it was up in both runs)
FetchRentDueAgain ==
    /\ pc = "fetched"
    /\ \E db_up \in BOOLEAN :
          LET r == fetch_rent_due_transactions(transactions, schema_unique, db_up,
                        use_mock_akahu, last_fetch.answer, last_fetch.property_id,
                        last_fetch.rent_due_date)
          IN /\ Len(r.rows) <= MaxRows
             /\ transactions' = r.rows
             /\ last_fetch' = [last_fetch EXCEPT !.db_up = last_fetch.db_up /\ db_up,
                                                 !.result = r.result,
                                                 !.calls = r.calls,
                                                 !.requests = r.requests, !.runs = 2]
    /\ UNCHANGED <<users, schema_unique, use_mock_akahu, today, pc, properties_to_check,
                   results, due_count, calls_issued, last_check, last_mock, workers, schedule, last_expected, last_detect, noticed, amount_matches>>

\* the caller drops the result it was given
FetchDone ==
    /\ pc = "fetched"
    /\ pc' = "idle"
    /\ last_fetch' = NoCall
    /\ UNCHANGED <<users, transactions, schema_unique, use_mock_akahu, today,
                   properties_to_check, results, due_count, calls_issued, last_check, last_mock, workers, schedule, last_expected, last_detect, noticed, amount_matches>>

ManualIds == {Null, "a"}

\* Transaction.create_transaction called directly (a hand-entered transaction)
CreateTransaction ==
    /\ pc = "idle"
    /\ \E akahu_transaction_id \in ManualIds, db_up \in BOOLEAN :
          LET made == create_transaction(transactions, schema_unique, db_up, 1,
                          today, 45000, <<"x">>, FALSE, akahu_transaction_id, <<>>)
          IN /\ Len(made.rows) <= MaxRows
             /\ transactions' = made.rows
    /\ UNCHANGED <<users, schema_unique, use_mock_akahu, today, pc, properties_to_check,
                   results, due_count, calls_issued, last_check, last_fetch, last_mock, workers, schedule, last_expected, last_detect, noticed, amount_matches>>

NextGateway ==
    \/ FetchRentDue
    \/ FetchRentDueAgain
    \/ FetchDone
    \/ CreateTransaction

SpecGateway == Init /\ [][NextGateway]_vars

(***************************************************************************)
(* The mock backend called as the demo routes call it                      *)
(***************************************************************************)

\* random.choice([450.00, 520.00, 380.00])
MockAmounts == {45000, 52000, 38000}

\* random.choice of the four canned descriptions
MockDescriptions ==
    {"Rent payment - Smith", "Weekly rent", "Property rent - Jones", "Rental payment"}

\* for i in range(3)
MockRange == <<0, 1, 2>>

MockIds == <<"txn_mock_0", "txn_mock_1", "txn_mock_2">>

\* MockAkahuService.get_transactions(access_token, account_id, days_back=2): the lists
\* it may return on the day `now`; each amount and description is a draw of random.choice
MockGetTransactionsResults(now) ==
    { [k \in 1..Len(MockRange) |->
          [id |-> MockIds[k], date |-> now - MockRange[k], amount |-> amounts[k],
           description |-> descriptions[k], type |-> "CREDIT"]] :
      amounts \in [1..Len(MockRange) -> MockAmounts],
      descriptions \in [1..Len(MockRange) -> MockDescriptions] }

\* akahu_service.get_transactions("mock_token", "acc_demo") on a MockAkahuService
MockGetTransactions ==
    /\ pc = "idle"
    /\ use_mock_akahu
    /\ \E items \in MockGetTransactionsResults(today) :
          last_mock' = [access_token |-> "mock_token", account_id |-> "acc_demo",
                        day |-> today, items |-> items, calls |-> 1]
    /\ pc' = "mocked"
    /\ UNCHANGED <<users, transactions, schema_unique, use_mock_akahu, today,
                   properties_to_check, results, due_count, calls_issued, last_check,
                   last_fetch, workers, schedule, last_expected, last_detect, noticed, amount_matches>>

\* the same call made again with the same arguments, on the same day
MockGetTransactionsAgain ==
    /\ pc = "mocked"
    /\ last_mock.calls = 1
    /\ \E items \in MockGetTransactionsResults(today) :
          last_mock' = [last_mock EXCEPT !.items = items, !.calls = 2]
    /\ UNCHANGED <<users, transactions, schema_unique, use_mock_akahu, today, pc,
                   properties_to_check, results, due_count, calls_issued, last_check,
                   last_fetch, workers, schedule, last_expected, last_detect, noticed, amount_matches>>

\* the caller drops the list it was given
MockDone ==
    /\ pc = "mocked"
    /\ pc' = "idle"
    /\ last_mock' = NoCall
    /\ UNCHANGED <<users, transactions, schema_unique, use_mock_akahu, today,
                   properties_to_check, results, due_count, calls_issued, last_check,
                   last_fetch, workers, schedule, last_expected, last_detect, noticed, amount_matches>>

NextMock ==
    \/ MockGetTransactions
    \/ MockGetTransactionsAgain
    \/ MockDone

SpecMock == Init /\ [][NextMock]_vars

(***************************************************************************)
(* create_transaction entered by two workers at once, each on a connection *)
(* of its own.  The SELECT runs outside any transaction; the INSERT opens  *)
(* one that sqlite serialises against other writers until the commit.      *)
(***************************************************************************)

\* external ids the workers ingest
WorkerIds == {"a", "b"}

\* the INSERT of create_transaction with its commit: [rows, created]
InsertTransaction(rows, unique, db_up, property_id, date, amount, description, matched, akahu_transaction_id, raw_data) ==
    IF ~db_up \/ UniqueViolation(rows, unique, akahu_transaction_id)
    THEN [rows |-> rows, created |-> FALSE]
    ELSE [rows |-> Append(rows, [id |-> Len(rows) + 1, property_id |-> property_id,
                                 date |-> date, amount |-> amount,
                                 description |-> description, matched |-> matched,
                                 akahu_transaction_id |-> akahu_transaction_id,
                                 confidence_score |-> Null, raw_data |-> raw_data]),
          created |-> TRUE]

\* a worker enters create_transaction with a raw transaction's external id
WorkerEnter(w) ==
    /\ workers[w].pc = "idle"
    /\ \E akahu_transaction_id \in WorkerIds :
          workers' = [workers EXCEPT ![w] = [pc |-> "select",
                                             akahu_transaction_id |-> akahu_transaction_id]]
    /\ UNCHANGED <<users, transactions, schema_unique, use_mock_akahu, today, pc,
                   properties_to_check, results, due_count, calls_issued, last_check,
                   last_fetch, last_mock, schedule, last_expected, last_detect, noticed, amount_matches>>

\* if akahu_transaction_id: SELECT ...; if cursor.fetchone(): return None
WorkerSelect(w) ==
    /\ workers[w].pc = "select"
    /\ workers' = [workers EXCEPT ![w].pc =
                      IF Truthy(workers[w].akahu_transaction_id)
                         /\ ExistsExternalId(transactions, workers[w].akahu_transaction_id)
                      THEN "returned" ELSE "insert"]
    /\ UNCHANGED <<users, transactions, schema_unique, use_mock_akahu, today, pc,
                   properties_to_check, results, due_count, calls_issued, last_check,
                   last_fetch, last_mock, schedule, last_expected, last_detect, noticed, amount_matches>>

\* INSERT ...; commit (or the except branch: rollback, return None)
WorkerInsert(w) ==
    /\ workers[w].pc = "insert"
    /\ \E db_up \in BOOLEAN :
          LET made == InsertTransaction(transactions, schema_unique, db_up, 1, today - 1,
                          45000, <<"x">>, FALSE, workers[w].akahu_transaction_id, <<>>)
          IN /\ Len(made.rows) <= MaxRows
             /\ transactions' = made.rows
    /\ workers' = [workers EXCEPT ![w].pc = "returned"]
    /\ UNCHANGED <<users, schema_unique, use_mock_akahu, today, pc, properties_to_check,
                   results, due_count, calls_issued, last_check, last_fetch, last_mock, schedule, last_expected, last_detect, noticed, amount_matches>>

\* create_transaction has returned to the worker's caller
WorkerReturn(w) ==
    /\ workers[w].pc = "returned"
    /\ workers' = [workers EXCEPT ![w] = Resting]
    /\ UNCHANGED <<users, transactions, schema_unique, use_mock_akahu, today, pc,
                   properties_to_check, results, due_count, calls_issued, last_check,
                   last_fetch, last_mock, schedule, last_expected, last_detect, noticed, amount_matches>>

NextWorkers ==
    \E w \in Workers :
        \/ WorkerEnter(w)
        \/ WorkerSelect(w)
        \/ WorkerInsert(w)
        \/ WorkerReturn(w)

SpecWorkers == Init /\ [][NextWorkers]_vars

(***************************************************************************)
(* utils/rent_checker.py: the expected rent date, next to the scheduler's  *)
(* check-day predicate, over the property objects the program builds       *)
(***************************************************************************)

FirstRefDate == Ymd2Ord(2026, 11, 1)

RefDays == 150      \* reference dates tried, from FirstRefDate on

RefDates == FirstRefDate..(FirstRefDate + RefDays - 1)

Frequencies == {"weekly", "fortnightly", "monthly"}

\* Property objects handed to the date functions.  due_day is text when the object was
\* loaded from the properties table (a TEXT column: a weekday name, or the digits of a
\* day of the month that the monthly branch of the scheduler parses) and an int when
\* the object was built in code (the demo route's MockProperty, due_day = 15); the
\* field not in use is a filler.
DateProperties ==
    {[frequency |-> f, due_day_type |-> "str", due_day_text |-> n, due_day_int |-> 0] :
         f \in Frequencies, n \in {WeekdayNames[k] : k \in 1..7}}
    \cup {[frequency |-> f, due_day_type |-> "str", due_day_text |-> ToString(d),
           due_day_int |-> 0] : f \in Frequencies, d \in 1..31}
    \cup {[frequency |-> f, due_day_type |-> "int", due_day_text |-> "", due_day_int |-> d] :
         f \in Frequencies, d \in 1..31}

\* date.replace(year, month, day) for a day that the month has
ReplaceYmd(y, m, d) == Ymd2Ord(y, m, d)

\* calculate_expected_rent_date never rolling a monthly date back to the previous month
calculate_expected_rent_date_no_rollback(property_obj, reference_date) ==
    LET due_day == property_obj.due_day_int
        clamped == IF due_day < 28 THEN due_day ELSE 28
    IN IF property_obj.due_day_type = "str" THEN [raised |-> TRUE, date |-> 0]
       ELSE IF property_obj.frequency = "monthly"
       THEN [raised |-> FALSE,
             date |-> ReplaceYmd(YearOf(reference_date), MonthOf(reference_date), clamped)]
       ELSE [raised |-> FALSE,
             date |-> reference_date - ((Weekday(reference_date) - (due_day - 1)) % 7)]

\* RentChecker.calculate_expected_rent_date: [raised, date].  min(due_day, 28) and
\* due_day - 1 raise TypeError on a str due_day.
calculate_expected_rent_date(property_obj, reference_date) ==
    LET due_day == property_obj.due_day_int
        frequency == property_obj.frequency
        y == YearOf(reference_date)
        m == MonthOf(reference_date)
        clamped == IF due_day < 28 THEN due_day ELSE 28
    IN IF frequency \notin Frequencies THEN [raised |-> FALSE, date |-> reference_date]
       ELSE IF property_obj.due_day_type = "str" THEN [raised |-> TRUE, date |-> 0]
       ELSE IF frequency = "monthly"
       THEN [raised |-> FALSE,
             date |-> IF DayOf(reference_date) < due_day
                      THEN IF m = 1 THEN ReplaceYmd(y - 1, 12, clamped)
                           ELSE ReplaceYmd(y, m - 1, clamped)
                      ELSE ReplaceYmd(y, m, clamped)]
       ELSE IF frequency = "weekly"
       THEN [raised |-> FALSE,
             date |-> reference_date - ((Weekday(reference_date) - (due_day - 1)) % 7)]
       ELSE [raised |-> FALSE,
             date |-> reference_date - ((Weekday(reference_date) - (due_day - 1)) % 14)]

\* SmartRentScheduler._should_check_property_today on such an object: with an int
\* due_day the weekday comparisons are False and due_day.isdigit() raises into the
\* bare except, which falls back to the first of the month
should_check_property_object(property_obj, yesterday) ==
    IF property_obj.due_day_type = "str"
    THEN should_check_property_today(
             [frequency |-> property_obj.frequency, due_day |-> property_obj.due_day_text],
             yesterday, WeekdayName(yesterday))
    ELSE property_obj.frequency = "monthly" /\ DayOf(yesterday) = 1

\* calculate_expected_rent_date(property_obj, reference_date) is called
CalculateExpectedRentDate ==
    /\ pc = "idle"
    /\ \E property_obj \in DateProperties, reference_date \in RefDates :
          last_expected' =
              [property |-> property_obj, reference_date |-> reference_date,
               result |-> calculate_expected_rent_date(property_obj, reference_date),
               check_day |-> should_check_property_object(property_obj, reference_date)]
    /\ pc' = "dated"
    /\ UNCHANGED <<users, transactions, schema_unique, use_mock_akahu, today,
                   properties_to_check, results, due_count, calls_issued, last_check,
                   last_fetch, last_mock, workers, schedule, last_detect, noticed, amount_matches>>

\* the caller has used the date
ExpectedRentDateUsed ==
    /\ pc = "dated"
    /\ pc' = "idle"
    /\ last_expected' = NoCall
    /\ UNCHANGED <<users, transactions, schema_unique, use_mock_akahu, today,
                   properties_to_check, results, due_count, calls_issued, last_check,
                   last_fetch, last_mock, workers, schedule, last_detect, noticed, amount_matches>>

NextDates ==
    \/ CalculateExpectedRentDate
    \/ ExpectedRentDateUsed

SpecDates == Init /\ [][NextDates]_vars

(***************************************************************************)
(* The two rent payment detectors applied to one raw transaction           *)
(***************************************************************************)

NoScore == [m |-> <<>>, e |-> 0]

\* AkahuService.detect_rent_payments([txn], property_obj) is called
DetectRentPayments ==
    /\ pc = "idle"
    /\ \E property_obj \in MatchProperties :
         \E txn \in MatchTxns(property_obj.rent_amount) :
            LET detected == detect_rent_payments(<<txn>>, property_obj).detected_payments
                scored == AmountMatches(txn.amount, property_obj.rent_amount)
            IN last_detect' =
                   [by |-> "akahu_service", property |-> property_obj, txn |-> txn,
                    counted |-> Len(detected) = 1,
                    scored |-> scored,
                    confidence |-> IF scored
                                   THEN confidence_score(Lower(txn.description), property_obj)
                                   ELSE NoScore]
    /\ pc' = "detected"
    /\ UNCHANGED <<users, transactions, schema_unique, use_mock_akahu, today,
                   properties_to_check, results, due_count, calls_issued, last_check,
                   last_fetch, last_mock, workers, schedule, last_expected, noticed, amount_matches>>

\* SmartRentScheduler._detect_rent_payments([txn], property_obj) is called
SchedulerDetectRentPayments ==
    /\ pc = "idle"
    /\ \E property_obj \in MatchProperties :
         \E txn \in MatchTxns(property_obj.rent_amount) :
            last_detect' =
                [by |-> "smart_scheduler", property |-> property_obj, txn |-> txn,
                 counted |-> Len(detect_rent_payments_sched(<<txn>>, property_obj)
                                     .rent_payments) = 1,
                 scored |-> FALSE,
                 confidence |-> NoScore]
    /\ pc' = "detected"
    /\ UNCHANGED <<users, transactions, schema_unique, use_mock_akahu, today,
                   properties_to_check, results, due_count, calls_issued, last_check,
                   last_fetch, last_mock, workers, schedule, last_expected, noticed, amount_matches>>

\* the caller has used the detected payments
DetectedPaymentsUsed ==
    /\ pc = "detected"
    /\ pc' = "idle"
    /\ last_detect' = NoCall
    /\ UNCHANGED <<users, transactions, schema_unique, use_mock_akahu, today,
                   properties_to_check, results, due_count, calls_issued, last_check,
                   last_fetch, last_mock, workers, schedule, last_expected, noticed, amount_matches>>

NextMatch ==
    \/ DetectRentPayments
    \/ SchedulerDetectRentPayments
    \/ DetectedPaymentsUsed

SpecMatch == Init /\ [][NextMatch]_vars

(***************************************************************************)
(* Properties of the gateway and the store (checked under SpecGateway)     *)
(***************************************************************************)

\* the latest fetch_rent_due_transactions call was a second run that reached the provider
SecondRun(f) == Get(f, "runs", 0) = 2 /\ f.requests > 0

\* C1: running fetch_rent_due_transactions a second time for the same property with
\* the same provider response (the database accepting writes in both runs) leaves the
\* transactions table as the first run left it, and the second run reports
\* transactions_stored = 0.
C1_IdempotentIngest ==
    [][ (Get(last_fetch, "runs", 0) = 1 /\ SecondRun(last_fetch') /\ last_fetch'.db_up)
        => /\ transactions' = transactions
           /\ last_fetch'.result.success
           /\ last_fetch'.result.transactions_stored = 0 ]_vars

\* C2: no two rows of the transactions table carry the same present (non-empty, non-NULL)
\* external id.
C2_UniqueExternalId ==
    \A i, j \in 1..Len(transactions) :
        (i # j /\ Truthy(transactions[i].akahu_transaction_id))
            => transactions[i].akahu_transaction_id # transactions[j].akahu_transaction_id

\* C2 witness: in a table without the UNIQUE constraint, a second run has offered again
\* a credit whose external id is already stored
C2_Witness ==
    /\ ~schema_unique
    /\ SecondRun(last_fetch)
    /\ last_fetch.db_up
    /\ \E k \in 1..Len(last_fetch.answer.items) :
          LET t == last_fetch.answer.items[k]
          IN /\ Truthy(t._id) /\ t.numeric /\ t.amount > 0 /\ t.date # 0
             /\ ExistsExternalId(transactions, t._id)

\* raw transactions of a response that are credits
Credits(items) == {k \in 1..Len(items) : items[k].numeric /\ items[k].amount > 0}

\* C7: every row imported by store_transactions comes from a raw transaction with a
\* strictly positive amount and holds its absolute value; the stored count never
\* exceeds the number of credits in the response.
C7_CreditsOnly ==
    /\ \A i \in 1..Len(transactions) :
          Len(transactions[i].raw_data) > 0
              => LET raw == transactions[i].raw_data[1]
                 IN /\ raw.numeric
                    /\ raw.amount > 0
                    /\ transactions[i].amount = Abs(raw.amount)
                    /\ transactions[i].amount > 0
    /\ (pc = "fetched" /\ last_fetch.result.success)
          => last_fetch.result.transactions_stored
                 <= Cardinality(Credits(last_fetch.answer.items))

\* C7 witness: a response holding a debit (or a zero amount) next to a credit was
\* ingested, and exactly the credit was stored
C7_Witness ==
    /\ pc = "fetched"
    /\ last_fetch.result.success
    /\ \E k \in 1..Len(last_fetch.answer.items) :
          last_fetch.answer.items[k].numeric /\ last_fetch.answer.items[k].amount <= 0
    /\ Cardinality(Credits(last_fetch.answer.items)) = 1
    /\ last_fetch.result.transactions_stored = 1
    /\ \E i \in 1..Len(transactions) : Len(transactions[i].raw_data) > 0

\* C8: when the provider call fails (network error or non-2xx response),
\* fetch_rent_due_transactions returns success = false with an error.
C8_ProviderFailureSurfaced ==
    (pc = "fetched" /\ last_fetch.requests > 0 /\ ~last_fetch.answer.ok)
        => (~last_fetch.result.success /\ "error" \in DOMAIN last_fetch.result)

(***************************************************************************)
(* Properties of the daily run (checked under Spec)                        *)
(***************************************************************************)

\* a per-property check has been made in the current run
Checked == "result" \in DOMAIN last_check

InRun == pc \in {"loop", "returned"} /\ due_count > 0

\* C3: a failed check is counted in failed_checks and the remaining due properties are
\* still processed: every collected property is either counted in properties_checked
\* or still waiting, and at the return properties_checked is the number collected.
C3_FailureIsolation ==
    InRun =>
        /\ results.properties_checked + Len(properties_to_check) = due_count
        /\ results.failed_checks =
              Cardinality({i \in 1..Len(results.details) : ~results.details[i].success})
        /\ Len(results.details) = results.properties_checked
        /\ (pc = "returned" => results.properties_checked = due_count)

\* C3 witness: a run of two due properties has returned, the first check having failed
\* and the second having succeeded
C3_Witness ==
    /\ pc = "returned"
    /\ due_count = 2
    /\ ~results.details[1].success
    /\ results.details[2].success
    /\ results.failed_checks = 1

\* the fetched transactions that are rent payments for the checked property
Matching(c) == {k \in 1..Len(c.fetched) : IsRentPayment(c.fetched[k], c.property)}

\* C4: for a check that completes successfully an overdue notification is emitted (the
\* notification sink is invoked and the check reports notification_sent) iff none of the
\* fetched transactions is a rent payment; a run over one due property whose provider
\* returns no transactions reports 1 notification, 1 API call, cost 0.10.
C4_NotifyIffNoMatch ==
    /\ (Checked /\ last_check.result.success)
          => /\ last_check.notified <=> (Matching(last_check) = {})
             /\ last_check.result.notification_sent <=> (Matching(last_check) = {})
    /\ (pc = "returned" /\ due_count = 1 /\ Checked /\ last_check.result.success
            /\ last_check.fetched = <<>>)
          => /\ results.notifications_sent = 1
             /\ results.api_calls_used = 1
             /\ results.total_cost = 10

\* C4 witness: the scenario's run has returned: one due property, the provider asked
\* once and answering with no transactions, one notification emitted
C4_Witness ==
    /\ pc = "returned"
    /\ due_count = 1
    /\ Checked /\ last_check.result.success
    /\ last_check.fetched = <<>>
    /\ calls_issued = 1
    /\ last_check.notified
    /\ results.notifications_sent = 1

\* a successful check that found a rent payment among the fetched transactions and
\* emitted nothing
C4_MatchSeen ==
    /\ Checked /\ last_check.result.success
    /\ Matching(last_check) # {}
    /\ ~last_check.notified

\* C5: at the end of a run api_calls_used is the number of provider requests issued
\* during the run and total_cost is api_calls_used times the per-call cost.
C5_CostMatchesCalls ==
    pc = "returned"
        => /\ results.api_calls_used = calls_issued
           /\ results.total_cost = results.api_calls_used * CostPerCallCents

\* C6: each per-property check makes exactly one get_transactions call, with the window
\* [dueDate - 1, dueDate + 2) where dueDate is yesterday.
C6_OneCallWindow ==
    Checked
        => /\ Len(last_check.calls) = 1
           /\ last_check.calls[1] = [start |-> (today - 1) - 1, end |-> (today - 1) + 2]

\* C9: no property of a user without a stored access token (absent or empty) is passed
\* to the per-property check, so none is counted in failed_checks.
C9_TokenlessExcluded ==
    Checked => Truthy(last_check.akahu_access_token)

\* C10: a notification sink that fails does not fail the check nor the run: the check
\* returns success = true and the run goes on to the properties that remain.
C10_SinkFailureHarmless ==
    (Checked /\ last_check.notified /\ ~last_check.delivered)
        => /\ last_check.result.success
           /\ last_check.result.notification_sent
           /\ pc \in {"loop", "returned"}
           /\ results.properties_checked + Len(properties_to_check) = due_count

\* C10 witness: the sink failed on the first of two due properties and the run went on
\* to check the second
C10_Witness ==
    /\ pc = "returned"
    /\ due_count = 2
    /\ results.properties_checked = 2
    /\ results.details[1].success
    /\ results.details[1].notification_sent
    /\ Checked /\ last_check.notified /\ ~last_check.delivered
    /\ results.notifications_sent = 2

(***************************************************************************)
(* Properties of the mock backend                                          *)
(***************************************************************************)

\* C11: the mock backend accepts every gateway call the scheduler makes, so the check of
\* a due property whose user holds a token, run with the mock, returns success = true.
C11_MockInterchangeable ==
    (Checked /\ use_mock_akahu /\ Truthy(last_check.akahu_access_token))
        => last_check.result.success

\* C12: two calls of MockAkahuService.get_transactions with the same arguments return
\* the same list of transactions.
C12_MockDeterministic ==
    [][ (Get(last_mock, "calls", 0) = 1 /\ Get(last_mock', "calls", 0) = 2)
        => last_mock'.items = last_mock.items ]_vars

(***************************************************************************)
(* Matched flag, concurrent ingest, summary counts                         *)
(***************************************************************************)

\* C13: after a check that classified a fetched transaction as a rent payment of the
\* property, the stored row of that transaction has matched = TRUE.
C13_MatchedPersisted ==
    (Checked /\ last_check.result.success)
        => \A k \in Matching(last_check) :
              \A i \in 1..Len(transactions) :
                  transactions[i].raw_data = <<last_check.fetched[k]>>
                      => transactions[i].matched

\* C14: when two workers ingest raw transactions carrying the same external id, under
\* every interleaving of their check-then-insert steps at most one row with that
\* external id is stored.
C14_AtMostOneRow ==
    \A x \in WorkerIds :
        Cardinality({i \in 1..Len(transactions) :
                        transactions[i].akahu_transaction_id = x}) <= 1

\* C15: every summary run_daily_smart_check returns, the one for a day with no due
\* property included, carries successful_checks and failed_checks, and their sum is
\* properties_checked.
C15_SummaryCounts ==
    pc = "returned"
        => /\ {"successful_checks", "failed_checks"} \subseteq DOMAIN results
           /\ results.successful_checks + results.failed_checks = results.properties_checked

(***************************************************************************)
(* Collection of the due properties and the schedule                       *)
(***************************************************************************)

\* users the scheduler treats as bank-connected: the rows with bank_connected set and a
\* stored (non-NULL) access token
BankConnected == {u \in UserIds : users[u].bank_connected /\ users[u].akahu_access_token # Null}

\* ids of the properties of bank-connected users for which the check-day predicate
\* holds on the day before `day`
ExpectedDue(day) ==
    {Properties[k].id : k \in {j \in 1..Len(Properties) :
        /\ Properties[j].user_id \in BankConnected
        /\ should_check_property_today(Properties[j], day - 1, WeekdayName(day - 1))}}

\* the collection of the current run has just been made from a readable database
JustCollected ==
    /\ pc \in {"loop", "returned"}
    /\ "collected_with_db" \in DOMAIN last_check
    /\ last_check.collected_with_db

ExpectedSchedule(day) ==
    {<<day + k, Properties[j].id>> : k \in 1..HorizonDays, j \in 1..Len(Properties)}
        \cap {e \in (day + 1..day + HorizonDays) \X PropertyIds :
                 \E j \in 1..Len(Properties) :
                    /\ Properties[j].id = e[2]
                    /\ Properties[j].user_id \in BankConnected
                    /\ should_check_property_today(Properties[j], e[1] - 1,
                                                   WeekdayName(e[1] - 1))}

Scheduled == pc = "scheduled" /\ last_check.collected_with_db

Dated == pc = "dated"

\* C18: for every weekly property and every reference date, calculate_expected_rent_date
\* returns a date whose weekday is the property's due-day (the weekday name, or weekday
\* number due_day - 1 counted from Monday), not later than the reference date and at
\* most 6 days before it.
C18_WeeklyExpectedDate ==
    (Dated /\ last_expected.property.frequency = "weekly")
        => /\ ~last_expected.result.raised
           /\ IF last_expected.property.due_day_type = "str"
              THEN WeekdayName(last_expected.result.date)
                       = last_expected.property.due_day_text
              ELSE Weekday(last_expected.result.date)
                       = (last_expected.property.due_day_int - 1) % 7
           /\ last_expected.result.date <= last_expected.reference_date
           /\ last_expected.reference_date - last_expected.result.date <= 6

MonthlyInt ==
    /\ Dated
    /\ last_expected.property.frequency = "monthly"
    /\ last_expected.property.due_day_type = "int"

\* C19: for a monthly property with due-day D in 1..31 and reference date R,
\* calculate_expected_rent_date returns a valid date with day min(D, 28), in R's month
\* when R.day >= D and otherwise in the previous month (December of the previous year
\* when R is in January); due-day 31 against a 30-day month yields day 28.
C19_MonthlyExpectedDate ==
    MonthlyInt
        => LET D == last_expected.property.due_day_int
               R == last_expected.reference_date
               date == last_expected.result.date
           IN /\ ~last_expected.result.raised
              /\ DayOf(date) = (IF D < 28 THEN D ELSE 28)
              /\ Ymd2Ord(YearOf(date), MonthOf(date), DayOf(date)) = date
              /\ DayOf(R) >= D => (MonthOf(date) = MonthOf(R) /\ YearOf(date) = YearOf(R))
              /\ (DayOf(R) < D /\ MonthOf(R) > 1)
                    => (MonthOf(date) = MonthOf(R) - 1 /\ YearOf(date) = YearOf(R))
              /\ (DayOf(R) < D /\ MonthOf(R) = 1)
                    => (MonthOf(date) = 12 /\ YearOf(date) = YearOf(R) - 1)
              /\ (D = 31 /\ DaysInMonth(YearOf(R), MonthOf(R)) = 30) => DayOf(date) = 28

\* C19 witness: due-day 31 asked on the last day of a 30-day month: day 28 of the
\* month before
C19_Witness ==
    /\ MonthlyInt
    /\ last_expected.property.due_day_int = 31
    /\ DaysInMonth(YearOf(last_expected.reference_date),
                   MonthOf(last_expected.reference_date)) = 30
    /\ DayOf(last_expected.reference_date) = 30
    /\ DayOf(last_expected.result.date) = 28
    /\ MonthOf(last_expected.result.date) = MonthOf(last_expected.reference_date) - 1

\* a monthly date rolled back from January to December of the year before
C19_YearRollover ==
    /\ MonthlyInt
    /\ MonthOf(last_expected.reference_date) = 1
    /\ MonthOf(last_expected.result.date) = 12

\* C20: for every property and date d on which the scheduler's check-day predicate
\* holds, calculate_expected_rent_date for that property with reference d returns d.
C20_CheckDayAfterExpected ==
    (Dated /\ last_expected.check_day)
        => /\ ~last_expected.result.raised
           /\ last_expected.result.date = last_expected.reference_date

\* the due_day is one of the weekday names
NamedDueDay ==
    /\ last_expected.property.due_day_type = "str"
    /\ \E k \in 1..7 : WeekdayNames[k] = last_expected.property.due_day_text

WeeklyNamed ==
    /\ Dated
    /\ last_expected.property.frequency = "weekly"
    /\ NamedDueDay

\* the offsets k in lo..hi for which the check-day predicate holds on reference_date + k
CheckDayOffsets(lo, hi) ==
    {k \in lo..hi : should_check_property_object(last_expected.property,
                                                 last_expected.reference_date + k)}

\* C21: for a weekly property whose due-day is a weekday name and any 14 consecutive
\* candidate dates, the check-day predicate holds on exactly one date of the first 7
\* and on exactly one date of the last 7, and the two dates are 7 days apart.
C21_WeeklyOncePerWeek ==
    WeeklyNamed
        => /\ Cardinality(CheckDayOffsets(0, 6)) = 1
           /\ Cardinality(CheckDayOffsets(7, 13)) = 1
           /\ \A j \in CheckDayOffsets(0, 6), k \in CheckDayOffsets(7, 13) : k - j = 7

\* C21 witness: a window that starts on a check day of a weekly property and holds the
\* next one a week later
C21_Witness ==
    /\ WeeklyNamed
    /\ last_expected.check_day
    /\ CheckDayOffsets(0, 13) = {0, 7}

\* C22: for a monthly property the check-day predicate holds on a date d iff d.day
\* equals the property's numeric due-day, whether the due-day is held as a number or
\* as digits in text; only a non-numeric due-day falls back to day 1.
C22_MonthlyOnDueDay ==
    (Dated /\ last_expected.property.frequency = "monthly")
        => LET property_obj == last_expected.property
               numeric_due_day ==
                   IF property_obj.due_day_type = "int" THEN property_obj.due_day_int
                   ELSE IF IsDigitText(property_obj.due_day_text)
                        THEN IntOfText(property_obj.due_day_text)
                        ELSE 1
           IN last_expected.check_day
                  <=> DayOf(last_expected.reference_date) = numeric_due_day

(***************************************************************************)
(* Properties of the rent payment detectors (checked under SpecMatch)      *)
(***************************************************************************)

Detected == pc = "detected"

\* |amount - rent| <= rent * 5% in exact arithmetic on cents
WithinTolerance(amount_cents, rent_cents) ==
    100 * Abs(amount_cents - rent_cents) <= TolerancePercent * rent_cents

\* C23: a credit matches on amount iff |amount - rent| <= rent * tolerance, the
\* boundary included: with rent 450.00 and 5%, 427.50 and 472.50 match and 427.49 and
\* 472.51 do not; likewise for every other rent.
C23_InclusiveBoundary ==
    (Detected /\ last_detect.by = "akahu_service" /\ last_detect.txn.amount > 0)
        => (last_detect.scored
                <=> WithinTolerance(last_detect.txn.amount, last_detect.property.rent_amount))

KeywordHit ==
    /\ TruthyText(last_detect.property.keyword)
    /\ Contains(Lower(last_detect.txn.description), Lower(last_detect.property.keyword))

NicknameHit ==
    /\ TruthyText(last_detect.property.tenant_nickname)
    /\ Contains(Lower(last_detect.txn.description),
                Lower(last_detect.property.tenant_nickname))

RentWordHit ==
    \E w \in {<<"r", "e", "n", "t">>, <<"l", "e", "a", "s", "e">>,
              <<"h", "o", "u", "s", "i", "n", "g">>} :
        Contains(Lower(last_detect.txn.description), w)

\* tenths of the claimed confidence: 5, +3 keyword, +2 nickname, +1 any rent word
ClaimedTenths ==
    5 + (IF KeywordHit THEN 3 ELSE 0) + (IF NicknameHit THEN 2 ELSE 0)
      + (IF RentWordHit THEN 1 ELSE 0)

C24_AmountOnly ==
    /\ Detected
    /\ last_detect.by = "akahu_service"
    /\ last_detect.scored
    /\ ClaimedTenths = 5
    /\ ~last_detect.counted

\* C25: every confidence score detect_rent_payments computes lies in [0, 1].
C25_ConfidenceInUnitInterval ==
    (Detected /\ last_detect.scored)
        => float_cmp(last_detect.confidence, float_of(1, 1)) <= 0

C29_DebitNeverCounted ==
    (Detected /\ last_detect.counted) => last_detect.txn.amount > 0

(***************************************************************************)
(* Properties of the check-day predicate over time (checked under SpecDates) *)
(***************************************************************************)

\* C27: for a fortnightly property whose due-day is a weekday name, the date after a
\* check-day date on which the predicate next holds is exactly 14 days later, also
\* when a new year begins in between.
C27_FortnightlyEvery14Days ==
    (Dated /\ last_expected.property.frequency = "fortnightly" /\ NamedDueDay
           /\ last_expected.check_day)
        => CheckDayOffsets(1, 14) = {14}

\* the due-day is a day of the month 1..31, held as a number or as digits in text
NumericDueDay ==
    \/ last_expected.property.due_day_type = "int"
    \/ IsDigitText(last_expected.property.due_day_text)

\* C28: for a monthly property with a due-day 1..31 and every calendar month, the
\* check-day predicate holds on at least one date of that month (the check then runs
\* the day after), also when the month is shorter than the due-day.
C28_MonthlyEveryMonth ==
    (Dated /\ last_expected.property.frequency = "monthly" /\ NumericDueDay)
        => LET y == YearOf(last_expected.reference_date)
               m == MonthOf(last_expected.reference_date)
           IN \E d \in 1..DaysInMonth(y, m) :
                  should_check_property_object(last_expected.property, Ymd2Ord(y, m, d))

(***************************************************************************)
(* Repeated runs on one day (checked under Spec)                           *)
(***************************************************************************)

\* C30: however often run_daily_smart_check runs on one day, it emits at most one
\* overdue notification per property for that day's due date: a check that emits one
\* is for a property that none was emitted for earlier on the same day.
C30_OneNoticePerDay ==
    [][(pc = "loop" /\ last_check' # last_check /\ Get(last_check', "notified", FALSE))
          => last_check'.property.id \notin noticed]_vars

====
